---- MODULE Spec2Model ----
(***************************************************************************)
(* Validation rules of the vManage client's policy list entries            *)
(* (vmngclient/models/policy/lists_entries.py) and the version gating of   *)
(* the tenant-migration endpoints (vmngclient/endpoints/                   *)
(* tenant_migration.py).                                                   *)
(*                                                                         *)
(* The library has no long-lived state: every operation is the             *)
(* construction of one model from keyword input, or one call of a check    *)
(* function.  The state records the operation (call), the input it is      *)
(* given (arg) and what comes out of it (ret).                             *)
(*                                                                         *)
(* Python values.  A str is a sequence of one-character strings, so that   *)
(* split("-") and int() are computed character by character.  A keyword    *)
(* input is Absent (not passed), None (passed as None), Str(s) or, for a    *)
(* nested model, Obj(input of that model).  Python ints are unbounded; an  *)
(* int is a sign and a magnitude of decimal digits without leading zeros,  *)
(* compared digit-wise, so 100000000000 is exact.                          *)
(***************************************************************************)
EXTENDS Integers, Sequences, FiniteSets, TLC

VARIABLES call, arg, ret

vars == <<call, arg, ret>>

(***************************************************************************)
(* Bounds of the enumerated inputs.                                        *)
(***************************************************************************)
\* longest string enumerated exhaustively over Alphabet
MaxLen == 3
\* most hyphen-separated tokens in an enumerated criteria string
MaxTokens == 3
\* largest minor version of an enumerated controller version
MaxMinor == 14

(***************************************************************************)
(* Python values                                                           *)
(***************************************************************************)
Absent == [t |-> "absent", s |-> <<>>]

None == [t |-> "none", s |-> <<>>]

Str(s) == [t |-> "str", s |-> s]

\* a model given as an input, or held as an attribute
Obj(d) == [t |-> "obj", s |-> d]

IsStr(v) == v.t = "str"

IsObj(v) == v.t = "obj"

IsAbsent(v) == v.t = "absent"

IsNone(v) == v.t = "none"

\* "x is not None" for an attribute of a validated model (Absent never is one)
NotNone(v) == v.t # "none"

\* Python truthiness of an Optional[str]: None and "" are falsy
Truthy(v) == v.t = "str" /\ v.s # <<>>

Digits == {"0", "1", "2", "3", "4", "5", "6", "7", "8", "9"}

DigitVal == [c \in Digits |->
    CASE c = "0" -> 0 [] c = "1" -> 1 [] c = "2" -> 2 [] c = "3" -> 3
      [] c = "4" -> 4 [] c = "5" -> 5 [] c = "6" -> 6 [] c = "7" -> 7
      [] c = "8" -> 8 [] c = "9" -> 9]

DigitChar == [d \in 0..9 |-> CHOOSE c \in Digits : DigitVal[c] = d]

Whitespace == {" "}

(***************************************************************************)
(* Python ints: [neg, mag], mag a digit sequence without leading zeros     *)
(* (zero is <<0>> and never negative).                                     *)
(***************************************************************************)
RECURSIVE StripZeros(_)
StripZeros(m) ==
    IF Len(m) > 1 /\ Head(m) = 0 THEN StripZeros(Tail(m)) ELSE m

MkInt(neg, digits) ==
    LET m == StripZeros(digits)
    IN  [neg |-> neg /\ m # <<0>>, mag |-> m]

\* a non-negative int literal of the source, digit by digit
Lit(digits) == MkInt(FALSE, digits)

MagLess(a, b) ==
    \/ Len(a) < Len(b)
    \/ /\ Len(a) = Len(b)
       /\ \E i \in 1..Len(a) :
            /\ a[i] < b[i]
            /\ \A j \in 1..(i - 1) : a[j] = b[j]

\* x < y
IntLess(x, y) ==
    CASE x.neg /\ ~y.neg -> TRUE
      [] ~x.neg /\ y.neg -> FALSE
      [] ~x.neg /\ ~y.neg -> MagLess(x.mag, y.mag)
      [] x.neg /\ y.neg -> MagLess(y.mag, x.mag)

\* x > y
IntGreater(x, y) == IntLess(y, x)

\* x >= y
IntGE(x, y) == ~IntLess(x, y)

\* lo <= x <= hi, the reading of "x in lo..hi"
InRange(x, lo, hi) == ~IntLess(x, lo) /\ ~IntLess(hi, x)

(***************************************************************************)
(* str.split(sep) for a one-character separator: always at least one part. *)
(***************************************************************************)
RECURSIVE SplitAcc(_, _, _)
SplitAcc(s, sep, cur) ==
    IF s = <<>> THEN <<cur>>
    ELSE IF Head(s) = sep
         THEN <<cur>> \o SplitAcc(Tail(s), sep, <<>>)
         ELSE SplitAcc(Tail(s), sep, Append(cur, Head(s)))

split(s, sep) == SplitAcc(s, sep, <<>>)

(***************************************************************************)
(* int(str): surrounding whitespace is stripped, one optional sign, then   *)
(* decimal digits, single underscores allowed between digits.  Anything    *)
(* else raises ValueError (ok = FALSE).                                    *)
(***************************************************************************)
RECURSIVE lstrip(_)
lstrip(s) ==
    IF s # <<>> /\ Head(s) \in Whitespace THEN lstrip(Tail(s)) ELSE s

RECURSIVE rstrip(_)
rstrip(s) ==
    IF s # <<>> /\ s[Len(s)] \in Whitespace
    THEN rstrip(SubSeq(s, 1, Len(s) - 1))
    ELSE s

strip(s) == rstrip(lstrip(s))

IsDigit(c) == c \in Digits

DigitBody(b) ==
    /\ b # <<>>
    /\ \A i \in 1..Len(b) : b[i] \in Digits \cup {"_"}
    /\ b[1] \in Digits
    /\ b[Len(b)] \in Digits
    /\ \A i \in 1..(Len(b) - 1) : ~(b[i] = "_" /\ b[i + 1] = "_")

DigitsOf(b) ==
    LET ds == SelectSeq(b, IsDigit)
    IN  [i \in 1..Len(ds) |-> DigitVal[ds[i]]]

int(s) ==
    LET t == strip(s)
        signed == t # <<>> /\ Head(t) \in {"+", "-"}
        body == IF signed THEN Tail(t) ELSE t
    IN  IF DigitBody(body)
        THEN [ok |-> TRUE,
              val |-> MkInt(signed /\ Head(t) = "-", DigitsOf(body))]
        ELSE [ok |-> FALSE, val |-> Lit(<<0>>)]

(***************************************************************************)
(* Results of a function call: a returned value or a raised exception.     *)
(***************************************************************************)
Return(v) == [st |-> "ok", v |-> v]

Raise(exc) == [st |-> exc, v |-> None]

(***************************************************************************)
(* check_jitter_ms, check_latency_ms, check_loss_percent                   *)
(* int(None) raises TypeError; int of a malformed string and an            *)
(* out-of-range value raise ValueError; otherwise the argument itself is   *)
(* returned.                                                               *)
(***************************************************************************)
JITTER_MIN == Lit(<<1>>)

JITTER_MAX == Lit(<<1, 0, 0, 0>>)

LATENCY_MIN == Lit(<<1>>)

LATENCY_MAX == Lit(<<1, 0, 0, 0>>)

LOSS_MIN == Lit(<<0>>)

LOSS_MAX == Lit(<<1, 0, 0>>)

\* a variant that returns the parsed value written back as a decimal string
check_jitter_ms_normalising(jitter_str) ==
    IF ~IsStr(jitter_str) THEN Raise("TypeError")
    ELSE LET jitter == int(jitter_str.s)
         IN  IF ~jitter.ok THEN Raise("ValueError")
             ELSE IF IntLess(jitter.val, JITTER_MIN) \/ IntGreater(jitter.val, JITTER_MAX)
                  THEN Raise("ValueError")
                  ELSE Return(Str([i \in 1..Len(jitter.val.mag) |->
                                      DigitChar[jitter.val.mag[i]]]))

check_jitter_ms(jitter_str) ==
    IF ~IsStr(jitter_str) THEN Raise("TypeError")
    ELSE LET jitter == int(jitter_str.s)
         IN  IF ~jitter.ok THEN Raise("ValueError")
             ELSE IF IntLess(jitter.val, JITTER_MIN) \/ IntGreater(jitter.val, JITTER_MAX)
                  THEN Raise("ValueError")
                  ELSE Return(jitter_str)

check_latency_ms(latency_str) ==
    IF ~IsStr(latency_str) THEN Raise("TypeError")
    ELSE LET latency == int(latency_str.s)
         IN  IF ~latency.ok THEN Raise("ValueError")
             ELSE IF IntLess(latency.val, LATENCY_MIN) \/ IntGreater(latency.val, LATENCY_MAX)
                  THEN Raise("ValueError")
                  ELSE Return(latency_str)

check_loss_percent(loss_str) ==
    IF ~IsStr(loss_str) THEN Raise("TypeError")
    ELSE LET loss == int(loss_str.s)
         IN  IF ~loss.ok THEN Raise("ValueError")
             ELSE IF IntLess(loss.val, LOSS_MIN) \/ IntGreater(loss.val, LOSS_MAX)
                  THEN Raise("ValueError")
                  ELSE Return(loss_str)

(***************************************************************************)
(* pydantic (v2) model construction.                                       *)
(*  - a field that is not passed takes its default and its validators do   *)
(*    not run; a field without a default is required, also when its type   *)
(*    is Optional;                                                         *)
(*  - a field validator runs on every passed value that has the field's    *)
(*    type, None included for an Optional field;                           *)
(*  - ValueError raised by a validator becomes a validation error of the   *)
(*    model, which is reported after all fields were tried; any other      *)
(*    exception (TypeError) leaves the constructor as it is;               *)
(*  - the mode="after" model validator runs only when every field passed.  *)
(* A construction ends "ok" with the model as value, or "ValidationError", *)
(* or "TypeError".                                                         *)
(***************************************************************************)
FromValidator(r) ==
    IF r.st = "ValueError" THEN Raise("ValidationError") ELSE r

\* field: str (required, not Optional)
RequiredStr(inp) ==
    IF IsStr(inp) THEN Return(inp) ELSE Raise("ValidationError")

\* field: Optional[...] without a default (required, None allowed)
RequiredOptional(inp) ==
    IF IsAbsent(inp) THEN Raise("ValidationError") ELSE Return(inp)

\* field: Optional[str] = None with a field validator whose result is validated
DefaultNoneValidated(inp, validated) ==
    IF IsAbsent(inp) THEN Return(None) ELSE FromValidator(validated)

\* the outcome of a construction from its fields' results and, when all
\* passed, the model validator's result
Construct(fields, after) ==
    IF \E f \in DOMAIN fields : fields[f].st = "TypeError"
    THEN Raise("TypeError")
    ELSE IF \E f \in DOMAIN fields : fields[f].st # "ok"
         THEN Raise("ValidationError")
         ELSE FromValidator(after)

Values(fields) == [f \in DOMAIN fields |-> fields[f].v]

Range(seq) == {seq[i] : i \in 1..Len(seq)}

(***************************************************************************)
(* FallbackBestTunnel                                                      *)
(***************************************************************************)
JITTER == <<"j", "i", "t", "t", "e", "r">>

LATENCY == <<"l", "a", "t", "e", "n", "c", "y">>

LOSS == <<"l", "o", "s", "s">>

\* a variant that reads criteria as a list: the tokens must come once each,
\* in the order jitter, latency, loss
check_criteria_ordered(self) ==
    LET Expected(c) ==
            \/ c = JITTER /\ NotNone(self.jitter_variance)
            \/ c = LATENCY /\ NotNone(self.latency_variance)
            \/ c = LOSS /\ NotNone(self.loss_variance)
        expected_criteria == SelectSeq(<<JITTER, LATENCY, LOSS>>, Expected)
        observed_criteria == split(self.criteria.s, "-")
    IN  IF Len(expected_criteria) < 1
        THEN Raise("ValueError")
        ELSE IF expected_criteria # observed_criteria
             THEN Raise("ValueError")
             ELSE Return(self)

check_criteria(self) ==
    LET expected_criteria ==
            {c \in {JITTER, LATENCY, LOSS} :
                \/ c = JITTER /\ NotNone(self.jitter_variance)
                \/ c = LATENCY /\ NotNone(self.latency_variance)
                \/ c = LOSS /\ NotNone(self.loss_variance)}
        observed_criteria == Range(split(self.criteria.s, "-"))
    IN  IF Cardinality(expected_criteria) < 1
        THEN Raise("ValueError")
        ELSE IF expected_criteria # observed_criteria
             THEN Raise("ValueError")
             ELSE Return(self)

FallbackBestTunnel(inp) ==
    LET fields ==
            [criteria |-> RequiredStr(inp.criteria),
             jitter_variance |->
                DefaultNoneValidated(inp.jitter_variance, check_jitter_ms(inp.jitter_variance)),
             latency_variance |->
                DefaultNoneValidated(inp.latency_variance, check_latency_ms(inp.latency_variance)),
             loss_variance |->
                DefaultNoneValidated(inp.loss_variance, check_loss_percent(inp.loss_variance))]
    IN  Construct(fields, check_criteria(Values(fields)))

(***************************************************************************)
(* VPNListEntry                                                            *)
(***************************************************************************)
VPN_MIN == Lit(<<0>>)

VPN_MAX == Lit(<<6, 5, 5, 3, 0>>)

\* field: str (required) with a field validator whose result is validated
RequiredStrValidated(inp, validated) ==
    IF IsStr(inp) THEN FromValidator(validated) ELSE Raise("ValidationError")

\* a variant that only refuses a descending range
VPNListEntry_check_vpn_range_nonstrict(vpns_str) ==
    LET parts == split(vpns_str.s, "-")
        vpns == [i \in 1..Len(parts) |-> int(parts[i])]
    IN  IF \E i \in 1..Len(vpns) : ~vpns[i].ok THEN Raise("ValueError")
        ELSE IF Len(vpns) > 2 THEN Raise("ValueError")
        ELSE IF \E i \in 1..Len(vpns) :
                    IntLess(vpns[i].val, VPN_MIN) \/ IntGreater(vpns[i].val, VPN_MAX)
             THEN Raise("ValueError")
        ELSE IF Len(vpns) = 2 /\ IntGreater(vpns[1].val, vpns[2].val)
             THEN Raise("ValueError")
        ELSE Return(vpns_str)

VPNListEntry_check_vpn_range(vpns_str) ==
    LET parts == split(vpns_str.s, "-")
        vpns == [i \in 1..Len(parts) |-> int(parts[i])]
    IN  IF \E i \in 1..Len(vpns) : ~vpns[i].ok THEN Raise("ValueError")
        ELSE IF Len(vpns) > 2 THEN Raise("ValueError")
        ELSE IF \E i \in 1..Len(vpns) :
                    IntLess(vpns[i].val, VPN_MIN) \/ IntGreater(vpns[i].val, VPN_MAX)
             THEN Raise("ValueError")
        ELSE IF Len(vpns) = 2 /\ IntGE(vpns[1].val, vpns[2].val)
             THEN Raise("ValueError")
        ELSE Return(vpns_str)

VPNListEntry(inp) ==
    LET fields ==
            [vpn |-> RequiredStrValidated(inp.vpn, VPNListEntry_check_vpn_range(inp.vpn))]
    IN  Construct(fields, Return(Values(fields)))

(***************************************************************************)
(* check_fields_exclusive (vmngclient.models.common): the fields named     *)
(* that are not None are counted; more than one raises ValueError, and     *)
(* none raises ValueError when at_least_one is asked for.  Returns         *)
(* whether one is assigned.                                                *)
(***************************************************************************)
check_fields_exclusive(values, field_names, at_least_one) ==
    LET assigned == {f \in field_names : NotNone(values[f])}
    IN  IF Cardinality(assigned) = 0 /\ at_least_one
        THEN Raise("ValueError")
        ELSE IF Cardinality(assigned) > 1
             THEN Raise("ValueError")
             ELSE Return(Cardinality(assigned) > 0)

\* a model validator that calls a check and returns self
ThenSelf(checked, self) == IF checked.st # "ok" THEN checked ELSE Return(self)

(***************************************************************************)
(* ZoneListEntry                                                           *)
(***************************************************************************)
\* a member of InterfaceTypeEnum (vmngclient.models.common)
InterfaceTypeEnum == {<<"E", "t", "h", "e", "r", "n", "e", "t">>}

\* field: Optional[<str enum>] = None
DefaultNoneEnum(inp, members) ==
    IF IsAbsent(inp) \/ IsNone(inp) THEN Return(None)
    ELSE IF inp.s \in members THEN Return(inp)
    ELSE Raise("ValidationError")

\* a variant for port numbers
ZoneListEntry_check_vpn_range_port(vpn_str) ==
    IF ~IsStr(vpn_str) THEN Raise("TypeError")
    ELSE LET vpn == int(vpn_str.s)
         IN  IF ~vpn.ok THEN Raise("ValueError")
             ELSE IF IntLess(vpn.val, VPN_MIN) \/ IntGreater(vpn.val, Lit(<<6, 5, 5, 3, 5>>))
                  THEN Raise("ValueError")
                  ELSE Return(vpn_str)

ZoneListEntry_check_vpn_range(vpn_str) ==
    IF ~IsStr(vpn_str) THEN Raise("TypeError")
    ELSE LET vpn == int(vpn_str.s)
         IN  IF ~vpn.ok THEN Raise("ValueError")
             ELSE IF IntLess(vpn.val, VPN_MIN) \/ IntGreater(vpn.val, VPN_MAX)
                  THEN Raise("ValueError")
                  ELSE Return(vpn_str)

check_vpn_xor_interface(self) ==
    ThenSelf(check_fields_exclusive(self, {"vpn", "interface"}, TRUE), self)

ZoneListEntry(inp) ==
    LET fields ==
            [vpn |-> DefaultNoneValidated(inp.vpn, ZoneListEntry_check_vpn_range(inp.vpn)),
             interface |-> DefaultNoneEnum(inp.interface, InterfaceTypeEnum)]
    IN  Construct(fields, check_vpn_xor_interface(Values(fields)))

(***************************************************************************)
(* GeoLocationListEntry, LocalAppListEntry, AppListEntry: both fields are  *)
(* Optional[str] = Field(...) without a default, hence required.           *)
(***************************************************************************)
check_country_xor_continent(self) ==
    ThenSelf(check_fields_exclusive(self, {"country", "continent"}, TRUE), self)

GeoLocationListEntry(inp) ==
    LET fields ==
            [country |-> RequiredOptional(inp.country),
             continent |-> RequiredOptional(inp.continent)]
    IN  Construct(fields, check_country_xor_continent(Values(fields)))

LocalAppListEntry_check_app_xor_appfamily(self) ==
    ThenSelf(check_fields_exclusive(self, {"app", "app_family"}, TRUE), self)

LocalAppListEntry(inp) ==
    LET fields ==
            [app_family |-> RequiredOptional(inp.app_family),
             app |-> RequiredOptional(inp.app)]
    IN  Construct(fields, LocalAppListEntry_check_app_xor_appfamily(Values(fields)))

AppListEntry_check_app_xor_appfamily(self) ==
    ThenSelf(check_fields_exclusive(self, {"app", "app_family"}, TRUE), self)

AppListEntry(inp) ==
    LET fields ==
            [app_family |-> RequiredOptional(inp.app_family),
             app |-> RequiredOptional(inp.app)]
    IN  Construct(fields, AppListEntry_check_app_xor_appfamily(Values(fields)))

(***************************************************************************)
(* PolicerListEntry                                                        *)
(***************************************************************************)
PolicerExceedAction == {<<"d", "r", "o", "p">>, <<"r", "e", "m", "a", "r", "k">>}

PolicerExceedAction_DROP == <<"d", "r", "o", "p">>

BURST_MIN == Lit(<<1, 5, 0, 0, 0>>)

BURST_MAX == Lit(<<1, 0, 0, 0, 0, 0, 0, 0>>)

RATE_MIN == Lit(<<8>>)

RATE_MAX == Lit(<<1, 0, 0, 0, 0, 0, 0, 0, 0, 0, 0, 0>>)

\* field: <str enum> = default
DefaultEnum(inp, members, default) ==
    IF IsAbsent(inp) THEN Return(Str(default))
    ELSE IF IsStr(inp) /\ inp.s \in members THEN Return(inp)
    ELSE Raise("ValidationError")

\* a variant whose lower bound is exclusive
check_burst_exclusive(burst_str) ==
    LET burst == int(burst_str.s)
    IN  IF ~burst.ok THEN Raise("ValueError")
        ELSE IF ~IntGreater(burst.val, BURST_MIN) \/ IntGreater(burst.val, BURST_MAX)
             THEN Raise("ValueError")
             ELSE Return(burst_str)

check_burst(burst_str) ==
    LET burst == int(burst_str.s)
    IN  IF ~burst.ok THEN Raise("ValueError")
        ELSE IF IntLess(burst.val, BURST_MIN) \/ IntGreater(burst.val, BURST_MAX)
             THEN Raise("ValueError")
             ELSE Return(burst_str)

\* a variant that checks the range its message names, 8-10000000
check_rate_as_message(rate_str) ==
    LET rate == int(rate_str.s)
    IN  IF ~rate.ok THEN Raise("ValueError")
        ELSE IF IntLess(rate.val, RATE_MIN) \/ IntGreater(rate.val, BURST_MAX)
             THEN Raise("ValueError")
             ELSE Return(rate_str)

check_rate(rate_str) ==
    LET rate == int(rate_str.s)
    IN  IF ~rate.ok THEN Raise("ValueError")
        ELSE IF IntLess(rate.val, RATE_MIN) \/ IntGreater(rate.val, RATE_MAX)
             THEN Raise("ValueError")
             ELSE Return(rate_str)

PolicerListEntry(inp) ==
    LET fields ==
            [burst |-> RequiredStrValidated(inp.burst, check_burst(inp.burst)),
             exceed |-> DefaultEnum(inp.exceed, PolicerExceedAction, PolicerExceedAction_DROP),
             rate |-> RequiredStrValidated(inp.rate, check_rate(inp.rate))]
    IN  Construct(fields, Return(Values(fields)))

(***************************************************************************)
(* SLAClassListEntry                                                       *)
(***************************************************************************)
\* field: Optional[<model>] = None, the model constructed from a given input
DefaultNoneModel(inp, constructed) ==
    IF IsAbsent(inp) \/ IsNone(inp) THEN Return(None)
    ELSE IF ~IsObj(inp) THEN Raise("ValidationError")
    ELSE IF constructed.st = "ok" THEN Return(Obj(constructed.v))
    ELSE constructed

\* a variant that tests the metrics' numbers instead of their strings
check_at_least_one_criteria_is_set_numeric(self) ==
    LET Nonzero(v) == IsStr(v) /\ int(v.s).ok /\ int(v.s).val # Lit(<<0>>)
    IN  IF ~(Nonzero(self.latency) \/ Nonzero(self.loss) \/ Nonzero(self.jitter))
        THEN Raise("ValueError")
        ELSE Return(self)

check_at_least_one_criteria_is_set(self) ==
    IF ~(Truthy(self.latency) \/ Truthy(self.loss) \/ Truthy(self.jitter))
    THEN Raise("ValueError")
    ELSE Return(self)

SLAClassListEntry(inp) ==
    LET fields ==
            [latency |-> DefaultNoneValidated(inp.latency, check_latency_ms(inp.latency)),
             loss |-> DefaultNoneValidated(inp.loss, check_loss_percent(inp.loss)),
             jitter |-> DefaultNoneValidated(inp.jitter, check_jitter_ms(inp.jitter)),
             app_probe_class |-> RequiredOptional(inp.app_probe_class),
             fallback_best_tunnel |->
                DefaultNoneModel(inp.fallback_best_tunnel,
                                 FallbackBestTunnel(inp.fallback_best_tunnel.s))]
    IN  Construct(fields, check_at_least_one_criteria_is_set(Values(fields)))

(***************************************************************************)
(* ColorGroupPreference, PreferredColorGroupListEntry                      *)
(***************************************************************************)
PathPreferenceEnum ==
    {<<"d", "i", "r", "e", "c", "t", "-", "p", "a", "t", "h">>,
     <<"m", "u", "l", "t", "i", "-", "h", "o", "p", "-", "p", "a", "t", "h">>,
     <<"a", "l", "l", "-", "p", "a", "t", "h", "s">>}

\* field: <str enum> (required)
RequiredEnum(inp, members) ==
    IF IsStr(inp) /\ inp.s \in members THEN Return(inp)
    ELSE Raise("ValidationError")

\* field: <model> (required), the model constructed from a given input
RequiredModel(inp, constructed) ==
    IF ~IsObj(inp) THEN Raise("ValidationError")
    ELSE IF constructed.st = "ok" THEN Return(Obj(constructed.v))
    ELSE constructed

ColorGroupPreference(inp) ==
    LET fields ==
            [color_preference |-> RequiredStr(inp.color_preference),
             path_preference |-> RequiredEnum(inp.path_preference, PathPreferenceEnum)]
    IN  Construct(fields, Return(Values(fields)))

\* a variant that has the two optional preferences the other way round
check_optional_preferences_order_swapped(self) ==
    IF IsNone(self.tertiary_preference) /\ NotNone(self.secondary_preference)
    THEN Raise("ValueError")
    ELSE Return(self)

check_optional_preferences_order(self) ==
    IF IsNone(self.secondary_preference) /\ NotNone(self.tertiary_preference)
    THEN Raise("ValueError")
    ELSE Return(self)

PreferredColorGroupListEntry(inp) ==
    LET fields ==
            [primary_preference |->
                RequiredModel(inp.primary_preference,
                              ColorGroupPreference(inp.primary_preference.s)),
             secondary_preference |->
                DefaultNoneModel(inp.secondary_preference,
                                 ColorGroupPreference(inp.secondary_preference.s)),
             tertiary_preference |->
                DefaultNoneModel(inp.tertiary_preference,
                                 ColorGroupPreference(inp.tertiary_preference.s))]
    IN  Construct(fields, check_optional_preferences_order(Values(fields)))

(***************************************************************************)
(* TenantMigration: the two import endpoints and their @versions.          *)
(* A version is <<major, minor, patch>>; "20.13" is <<20, 13, 0>>.         *)
(* @versions(spec) (vmngclient.endpoints) compares the session's API       *)
(* version with the specifier before the request is made, and warns when   *)
(* it is not contained; the request is made in either case.                *)
(***************************************************************************)
VersionLess(a, b) ==
    \/ a[1] < b[1]
    \/ a[1] = b[1] /\ a[2] < b[2]
    \/ a[1] = b[1] /\ a[2] = b[2] /\ a[3] < b[3]

\* version in SpecifierSet(spec)
Contains(spec, version) ==
    CASE spec.op = "<" -> VersionLess(version, spec.version)
      [] spec.op = "<=" -> ~VersionLess(spec.version, version)
      [] spec.op = ">" -> VersionLess(spec.version, version)
      [] spec.op = ">=" -> ~VersionLess(version, spec.version)

\* a variant that still covers 20.13 itself
import_tenant_data_versions_inclusive == [op |-> "<=", version |-> <<20, 13, 0>>]

\* @versions("<20.13")
import_tenant_data_versions == [op |-> "<", version |-> <<20, 13, 0>>]

\* @versions(">=20.13")
import_tenant_data_with_key_versions == [op |-> ">=", version |-> <<20, 13, 0>>]

\* @post("/tenantmigration/import")
import_tenant_data(version) ==
    Return([method |-> "POST",
            path |-> "/tenantmigration/import",
            supported |-> Contains(import_tenant_data_versions, version)])

\* @post("/tenantmigration/import/{migration_key}")
import_tenant_data_with_key(version) ==
    Return([method |-> "POST",
            path |-> "/tenantmigration/import/{migration_key}",
            supported |-> Contains(import_tenant_data_with_key_versions, version)])

(***************************************************************************)
(* CiscoVpnInterfaceModel: the fields whose wire names are declared with   *)
(* Field(alias=...), in the order of the class body, and those beside them *)
(* that carry no alias and go by their own name.  A model is a function    *)
(* from field names to values; the wire form is a function from wire names *)
(* to values.                                                              *)
(***************************************************************************)
PyInt(n) == [t |-> "int", s |-> <<n>>]

\* a list value, known by the kind of its elements
List(kind) == [t |-> "list", s |-> kind]

STRINGBOOL == {<<"t", "r", "u", "e">>, <<"f", "a", "l", "s", "e">>}

CiscoVpnInterfaceFields ==
    <<"if_name", "secondary_ipv4_address", "dhcp_ipv4_client", "dhcp_distance",
      "dhcp_ipv6_client", "secondary_ipv6_address", "access_list_ipv4", "enable",
      "access_list_ipv6", "enable_sgt_propagation", "sgt",
      "enable_sgt_authorization_and_forwarding", "enable_sgt_enforcement",
      "enforcement_sgt">>

\* the alias of each field; a field declared without one goes by its name
CiscoVpnInterfaceAlias ==
    [f \in Range(CiscoVpnInterfaceFields) |->
        CASE f = "if_name" -> "if-name"
          [] f = "secondary_ipv4_address" -> "secondary-address"
          [] f = "dhcp_ipv4_client" -> "dhcp-client"
          [] f = "dhcp_distance" -> "dhcp-distance"
          [] f = "dhcp_ipv6_client" -> "dhcp-client"
          [] f = "secondary_ipv6_address" -> "secondary-address"
          [] f = "access_list_ipv4" -> "access-list"
          [] f = "enable" -> "enable"
          [] f = "access_list_ipv6" -> "access-list"
          [] f = "enable_sgt_propagation" -> "sgt"
          [] f = "sgt" -> "sgt"
          [] f = "enable_sgt_authorization_and_forwarding" -> "enable"
          [] f = "enable_sgt_enforcement" -> "enable"
          [] f = "enforcement_sgt" -> "enforcement_sgt"]

\* whether a value has the declared type of a field
CiscoVpnInterfaceTypeOK(f, v) ==
    CASE f = "if_name" -> IsStr(v)
      [] f \in {"dhcp_ipv4_client", "dhcp_ipv6_client", "enable",
                "enable_sgt_propagation", "enable_sgt_authorization_and_forwarding",
                "enable_sgt_enforcement"} ->
            IsNone(v) \/ (IsStr(v) /\ v.s \in STRINGBOOL)
      [] f \in {"dhcp_distance", "sgt", "enforcement_sgt"} ->
            IsNone(v) \/ v.t = "int"
      [] f = "secondary_ipv4_address" -> IsNone(v) \/ v = List("SecondaryIPv4Address")
      [] f = "secondary_ipv6_address" -> IsNone(v) \/ v = List("SecondaryIPv6Address")
      [] f \in {"access_list_ipv4", "access_list_ipv6"} ->
            IsNone(v) \/ (v.t = "list" /\ v.s \in {"AccessList in", "AccessList out"})

\* dict(by_alias=True): the fields are written in their order under their
\* wire names, so of the fields that share a wire name the last one stays
dict_by_alias(model) ==
    LET fs == CiscoVpnInterfaceFields
        Last(k) == CHOOSE i \in 1..Len(fs) :
                      /\ CiscoVpnInterfaceAlias[fs[i]] = k
                      /\ \A j \in (i + 1)..Len(fs) : CiscoVpnInterfaceAlias[fs[j]] # k
    IN  [k \in {CiscoVpnInterfaceAlias[f] : f \in Range(fs)} |-> model[fs[Last(k)]]]

\* parse_obj(wire): every field takes the value under its wire name and
\* validates it against its own type
parse_obj(wire) ==
    LET fs == Range(CiscoVpnInterfaceFields)
        model == [f \in fs |-> wire[CiscoVpnInterfaceAlias[f]]]
    IN  IF \A f \in fs : CiscoVpnInterfaceTypeOK(f, model[f])
        THEN Return(model)
        ELSE Raise("ValidationError")

\* a model written out by wire name and read back
CiscoVpnInterfaceRoundTrip(model) == parse_obj(dict_by_alias(model))

(***************************************************************************)
(* Endpoint classes.  Every method decorated with @get, @post, @put or     *)
(* @delete is an entry: the name of the method, the HTTP verb of the       *)
(* decorator, its path template and the parameters of the method besides   *)
(* self.  Path templates and parameter names are sequences of characters.  *)
(***************************************************************************)
Endpoint(func, http_method, url, parameters) ==
    [func |-> func, http_method |-> http_method, url |-> url, parameters |-> parameters]

ConfigurationPolicyAppProbeClassList ==
    {\* @post("/template/policy/list/appprobe") create_policy_list(self, payload)
     Endpoint("create_policy_list", "POST",
              <<"/", "t", "e", "m", "p", "l", "a", "t", "e", "/", "p", "o", "l", "i", "c", "y", "/", "l", "i", "s", "t", "/", "a", "p", "p", "p", "r", "o", "b", "e">>,
              {<<"p", "a", "y", "l", "o", "a", "d">>}),
     \* @delete("/template/policy/list/appprobe/{id}") delete_policy_list(self, id)
     Endpoint("delete_policy_list", "DELETE",
              <<"/", "t", "e", "m", "p", "l", "a", "t", "e", "/", "p", "o", "l", "i", "c", "y", "/", "l", "i", "s", "t", "/", "a", "p", "p", "p", "r", "o", "b", "e", "/", "{", "i", "d", "}">>,
              {<<"i", "d">>}),
     \* @delete("/template/policy/list/appprobe") delete_policy_lists_with_info_tag(self, params)
     Endpoint("delete_policy_lists_with_info_tag", "DELETE",
              <<"/", "t", "e", "m", "p", "l", "a", "t", "e", "/", "p", "o", "l", "i", "c", "y", "/", "l", "i", "s", "t", "/", "a", "p", "p", "p", "r", "o", "b", "e">>,
              {<<"p", "a", "r", "a", "m", "s">>}),
     \* @put("/template/policy/list/appprobe/{id}") edit_policy_list(self, id, payload)
     Endpoint("edit_policy_list", "PUT",
              <<"/", "t", "e", "m", "p", "l", "a", "t", "e", "/", "p", "o", "l", "i", "c", "y", "/", "l", "i", "s", "t", "/", "a", "p", "p", "p", "r", "o", "b", "e", "/", "{", "i", "d", "}">>,
              {<<"i", "d">>, <<"p", "a", "y", "l", "o", "a", "d">>}),
     \* @get("/template/policy/list/appprobe/{id}") get_lists_by_id(self, id)
     Endpoint("get_lists_by_id", "GET",
              <<"/", "t", "e", "m", "p", "l", "a", "t", "e", "/", "p", "o", "l", "i", "c", "y", "/", "l", "i", "s", "t", "/", "a", "p", "p", "p", "r", "o", "b", "e", "/", "{", "i", "d", "}">>,
              {<<"i", "d">>}),
     \* @get("/template/policy/list/appprobe") get_policy_lists(self)
     Endpoint("get_policy_lists", "GET",
              <<"/", "t", "e", "m", "p", "l", "a", "t", "e", "/", "p", "o", "l", "i", "c", "y", "/", "l", "i", "s", "t", "/", "a", "p", "p", "p", "r", "o", "b", "e">>,
              {}),
     \* @get("/template/policy/list/appprobe/filtered") get_policy_lists_with_info_tag(self, params)
     Endpoint("get_policy_lists_with_info_tag", "GET",
              <<"/", "t", "e", "m", "p", "l", "a", "t", "e", "/", "p", "o", "l", "i", "c", "y", "/", "l", "i", "s", "t", "/", "a", "p", "p", "p", "r", "o", "b", "e", "/", "f", "i", "l", "t", "e", "r", "e", "d">>,
              {<<"p", "a", "r", "a", "m", "s">>}),
     \* @post("/template/policy/list/appprobe/preview") preview_policy_list(self, payload)
     Endpoint("preview_policy_list", "POST",
              <<"/", "t", "e", "m", "p", "l", "a", "t", "e", "/", "p", "o", "l", "i", "c", "y", "/", "l", "i", "s", "t", "/", "a", "p", "p", "p", "r", "o", "b", "e", "/", "p", "r", "e", "v", "i", "e", "w">>,
              {<<"p", "a", "y", "l", "o", "a", "d">>}),
     \* @get("/template/policy/list/appprobe/preview/{id}") preview_policy_list_by_id(self, id)
     Endpoint("preview_policy_list_by_id", "GET",
              <<"/", "t", "e", "m", "p", "l", "a", "t", "e", "/", "p", "o", "l", "i", "c", "y", "/", "l", "i", "s", "t", "/", "a", "p", "p", "p", "r", "o", "b", "e", "/", "p", "r", "e", "v", "i", "e", "w", "/", "{", "i", "d", "}">>,
              {<<"i", "d">>})}

ConfigurationPolicyDataIPv6PrefixList ==
    {\* @post("/template/policy/list/dataipv6prefix") create_policy_list(self, payload)
     Endpoint("create_policy_list", "POST",
              <<"/", "t", "e", "m", "p", "l", "a", "t", "e", "/", "p", "o", "l", "i", "c", "y", "/", "l", "i", "s", "t", "/", "d", "a", "t", "a", "i", "p", "v", "6", "p", "r", "e", "f", "i", "x">>,
              {<<"p", "a", "y", "l", "o", "a", "d">>}),
     \* @delete("/template/policy/list/dataipv6prefix/{id}") delete_policy_list(self, id)
     Endpoint("delete_policy_list", "DELETE",
              <<"/", "t", "e", "m", "p", "l", "a", "t", "e", "/", "p", "o", "l", "i", "c", "y", "/", "l", "i", "s", "t", "/", "d", "a", "t", "a", "i", "p", "v", "6", "p", "r", "e", "f", "i", "x", "/", "{", "i", "d", "}">>,
              {<<"i", "d">>}),
     \* @delete("/template/policy/list/dataipv6prefix") delete_policy_lists_with_info_tag(self, params)
     Endpoint("delete_policy_lists_with_info_tag", "DELETE",
              <<"/", "t", "e", "m", "p", "l", "a", "t", "e", "/", "p", "o", "l", "i", "c", "y", "/", "l", "i", "s", "t", "/", "d", "a", "t", "a", "i", "p", "v", "6", "p", "r", "e", "f", "i", "x">>,
              {<<"p", "a", "r", "a", "m", "s">>}),
     \* @put("/template/policy/list/dataipv6prefix/{id}") edit_policy_list(self, id, payload)
     Endpoint("edit_policy_list", "PUT",
              <<"/", "t", "e", "m", "p", "l", "a", "t", "e", "/", "p", "o", "l", "i", "c", "y", "/", "l", "i", "s", "t", "/", "d", "a", "t", "a", "i", "p", "v", "6", "p", "r", "e", "f", "i", "x", "/", "{", "i", "d", "}">>,
              {<<"i", "d">>, <<"p", "a", "y", "l", "o", "a", "d">>}),
     \* @get("/template/policy/list/dataipv6prefix/{id}") get_lists_by_id(self, id)
     Endpoint("get_lists_by_id", "GET",
              <<"/", "t", "e", "m", "p", "l", "a", "t", "e", "/", "p", "o", "l", "i", "c", "y", "/", "l", "i", "s", "t", "/", "d", "a", "t", "a", "i", "p", "v", "6", "p", "r", "e", "f", "i", "x", "/", "{", "i", "d", "}">>,
              {<<"i", "d">>}),
     \* @get("/template/policy/list/dataipv6prefix") get_policy_lists(self)
     Endpoint("get_policy_lists", "GET",
              <<"/", "t", "e", "m", "p", "l", "a", "t", "e", "/", "p", "o", "l", "i", "c", "y", "/", "l", "i", "s", "t", "/", "d", "a", "t", "a", "i", "p", "v", "6", "p", "r", "e", "f", "i", "x">>,
              {}),
     \* @get("/template/policy/list/dataipv6prefix/filtered") get_policy_lists_with_info_tag(self, params)
     Endpoint("get_policy_lists_with_info_tag", "GET",
              <<"/", "t", "e", "m", "p", "l", "a", "t", "e", "/", "p", "o", "l", "i", "c", "y", "/", "l", "i", "s", "t", "/", "d", "a", "t", "a", "i", "p", "v", "6", "p", "r", "e", "f", "i", "x", "/", "f", "i", "l", "t", "e", "r", "e", "d">>,
              {<<"p", "a", "r", "a", "m", "s">>}),
     \* @post("/template/policy/list/dataipv6prefix/preview") preview_policy_list(self, payload)
     Endpoint("preview_policy_list", "POST",
              <<"/", "t", "e", "m", "p", "l", "a", "t", "e", "/", "p", "o", "l", "i", "c", "y", "/", "l", "i", "s", "t", "/", "d", "a", "t", "a", "i", "p", "v", "6", "p", "r", "e", "f", "i", "x", "/", "p", "r", "e", "v", "i", "e", "w">>,
              {<<"p", "a", "y", "l", "o", "a", "d">>}),
     \* @get("/template/policy/list/dataipv6prefix/preview/{id}") preview_policy_list_by_id(self, id)
     Endpoint("preview_policy_list_by_id", "GET",
              <<"/", "t", "e", "m", "p", "l", "a", "t", "e", "/", "p", "o", "l", "i", "c", "y", "/", "l", "i", "s", "t", "/", "d", "a", "t", "a", "i", "p", "v", "6", "p", "r", "e", "f", "i", "x", "/", "p", "r", "e", "v", "i", "e", "w", "/", "{", "i", "d", "}">>,
              {<<"i", "d">>})}

ConfigurationPolicyRuleSetDefinition ==
    {\* @post("/template/policy/definition/ruleset") create_policy_definition(self, payload)
     Endpoint("create_policy_definition", "POST",
              <<"/", "t", "e", "m", "p", "l", "a", "t", "e", "/", "p", "o", "l", "i", "c", "y", "/", "d", "e", "f", "i", "n", "i", "t", "i", "o", "n", "/", "r", "u", "l", "e", "s", "e", "t">>,
              {<<"p", "a", "y", "l", "o", "a", "d">>}),
     \* @delete("/template/policy/definition/ruleset/{id}") delete_policy_definition(self, id)
     Endpoint("delete_policy_definition", "DELETE",
              <<"/", "t", "e", "m", "p", "l", "a", "t", "e", "/", "p", "o", "l", "i", "c", "y", "/", "d", "e", "f", "i", "n", "i", "t", "i", "o", "n", "/", "r", "u", "l", "e", "s", "e", "t", "/", "{", "i", "d", "}">>,
              {<<"i", "d">>}),
     \* @put("/template/policy/definition/ruleset/{id}") edit_policy_definition(self, id, payload)
     Endpoint("edit_policy_definition", "PUT",
              <<"/", "t", "e", "m", "p", "l", "a", "t", "e", "/", "p", "o", "l", "i", "c", "y", "/", "d", "e", "f", "i", "n", "i", "t", "i", "o", "n", "/", "r", "u", "l", "e", "s", "e", "t", "/", "{", "i", "d", "}">>,
              {<<"i", "d">>, <<"p", "a", "y", "l", "o", "a", "d">>}),
     \* @get("/template/policy/definition/ruleset") get_definitions(self)
     Endpoint("get_definitions", "GET",
              <<"/", "t", "e", "m", "p", "l", "a", "t", "e", "/", "p", "o", "l", "i", "c", "y", "/", "d", "e", "f", "i", "n", "i", "t", "i", "o", "n", "/", "r", "u", "l", "e", "s", "e", "t">>,
              {}),
     \* @get("/template/policy/definition/ruleset/{id}") get_policy_definition(self, id)
     Endpoint("get_policy_definition", "GET",
              <<"/", "t", "e", "m", "p", "l", "a", "t", "e", "/", "p", "o", "l", "i", "c", "y", "/", "d", "e", "f", "i", "n", "i", "t", "i", "o", "n", "/", "r", "u", "l", "e", "s", "e", "t", "/", "{", "i", "d", "}">>,
              {<<"i", "d">>}),
     \* @post("/template/policy/definition/ruleset/preview") preview_policy_definition(self, payload)
     Endpoint("preview_policy_definition", "POST",
              <<"/", "t", "e", "m", "p", "l", "a", "t", "e", "/", "p", "o", "l", "i", "c", "y", "/", "d", "e", "f", "i", "n", "i", "t", "i", "o", "n", "/", "r", "u", "l", "e", "s", "e", "t", "/", "p", "r", "e", "v", "i", "e", "w">>,
              {<<"p", "a", "y", "l", "o", "a", "d">>}),
     \* @get("/template/policy/definition/ruleset/preview/{id}") preview_policy_definition_by_id(self, id)
     Endpoint("preview_policy_definition_by_id", "GET",
              <<"/", "t", "e", "m", "p", "l", "a", "t", "e", "/", "p", "o", "l", "i", "c", "y", "/", "d", "e", "f", "i", "n", "i", "t", "i", "o", "n", "/", "r", "u", "l", "e", "s", "e", "t", "/", "p", "r", "e", "v", "i", "e", "w", "/", "{", "i", "d", "}">>,
              {<<"i", "d">>})}

\* a variant whose keyed import lost the key from its path
TenantMigration_import_without_key ==
    {\* @get("/tenantmigration/download/{path}") download_tenant_data(self, path)
     Endpoint("download_tenant_data", "GET",
              <<"/", "t", "e", "n", "a", "n", "t", "m", "i", "g", "r", "a", "t", "i", "o", "n", "/", "d", "o", "w", "n", "l", "o", "a", "d", "/", "{", "p", "a", "t", "h", "}">>,
              {<<"p", "a", "t", "h">>}),
     \* @post("/tenantmigration/export") export_tenant_data(self, payload)
     Endpoint("export_tenant_data", "POST",
              <<"/", "t", "e", "n", "a", "n", "t", "m", "i", "g", "r", "a", "t", "i", "o", "n", "/", "e", "x", "p", "o", "r", "t">>,
              {<<"p", "a", "y", "l", "o", "a", "d">>}),
     \* @get("/tenantmigration/migrationToken") get_migration_token(self, params)
     Endpoint("get_migration_token", "GET",
              <<"/", "t", "e", "n", "a", "n", "t", "m", "i", "g", "r", "a", "t", "i", "o", "n", "/", "m", "i", "g", "r", "a", "t", "i", "o", "n", "T", "o", "k", "e", "n">>,
              {<<"p", "a", "r", "a", "m", "s">>}),
     \* @post("/tenantmigration/import") import_tenant_data(self, payload)
     Endpoint("import_tenant_data", "POST",
              <<"/", "t", "e", "n", "a", "n", "t", "m", "i", "g", "r", "a", "t", "i", "o", "n", "/", "i", "m", "p", "o", "r", "t">>,
              {<<"p", "a", "y", "l", "o", "a", "d">>}),
     \* @post("/tenantmigration/import") import_tenant_data_with_key(self, payload, migration_key)
     Endpoint("import_tenant_data_with_key", "POST",
              <<"/", "t", "e", "n", "a", "n", "t", "m", "i", "g", "r", "a", "t", "i", "o", "n", "/", "i", "m", "p", "o", "r", "t">>,
              {<<"p", "a", "y", "l", "o", "a", "d">>, <<"m", "i", "g", "r", "a", "t", "i", "o", "n", "_", "k", "e", "y">>}),
     \* @post("/tenantmigration/networkMigration") migrate_network(self, payload)
     Endpoint("migrate_network", "POST",
              <<"/", "t", "e", "n", "a", "n", "t", "m", "i", "g", "r", "a", "t", "i", "o", "n", "/", "n", "e", "t", "w", "o", "r", "k", "M", "i", "g", "r", "a", "t", "i", "o", "n">>,
              {<<"p", "a", "y", "l", "o", "a", "d">>})}

TenantMigration ==
    {\* @get("/tenantmigration/download/{path}") download_tenant_data(self, path)
     Endpoint("download_tenant_data", "GET",
              <<"/", "t", "e", "n", "a", "n", "t", "m", "i", "g", "r", "a", "t", "i", "o", "n", "/", "d", "o", "w", "n", "l", "o", "a", "d", "/", "{", "p", "a", "t", "h", "}">>,
              {<<"p", "a", "t", "h">>}),
     \* @post("/tenantmigration/export") export_tenant_data(self, payload)
     Endpoint("export_tenant_data", "POST",
              <<"/", "t", "e", "n", "a", "n", "t", "m", "i", "g", "r", "a", "t", "i", "o", "n", "/", "e", "x", "p", "o", "r", "t">>,
              {<<"p", "a", "y", "l", "o", "a", "d">>}),
     \* @get("/tenantmigration/migrationToken") get_migration_token(self, params)
     Endpoint("get_migration_token", "GET",
              <<"/", "t", "e", "n", "a", "n", "t", "m", "i", "g", "r", "a", "t", "i", "o", "n", "/", "m", "i", "g", "r", "a", "t", "i", "o", "n", "T", "o", "k", "e", "n">>,
              {<<"p", "a", "r", "a", "m", "s">>}),
     \* @post("/tenantmigration/import") import_tenant_data(self, payload)
     Endpoint("import_tenant_data", "POST",
              <<"/", "t", "e", "n", "a", "n", "t", "m", "i", "g", "r", "a", "t", "i", "o", "n", "/", "i", "m", "p", "o", "r", "t">>,
              {<<"p", "a", "y", "l", "o", "a", "d">>}),
     \* @post("/tenantmigration/import/{migration_key}") import_tenant_data_with_key(self, payload, migration_key)
     Endpoint("import_tenant_data_with_key", "POST",
              <<"/", "t", "e", "n", "a", "n", "t", "m", "i", "g", "r", "a", "t", "i", "o", "n", "/", "i", "m", "p", "o", "r", "t", "/", "{", "m", "i", "g", "r", "a", "t", "i", "o", "n", "_", "k", "e", "y", "}">>,
              {<<"p", "a", "y", "l", "o", "a", "d">>, <<"m", "i", "g", "r", "a", "t", "i", "o", "n", "_", "k", "e", "y">>}),
     \* @post("/tenantmigration/networkMigration") migrate_network(self, payload)
     Endpoint("migrate_network", "POST",
              <<"/", "t", "e", "n", "a", "n", "t", "m", "i", "g", "r", "a", "t", "i", "o", "n", "/", "n", "e", "t", "w", "o", "r", "k", "M", "i", "g", "r", "a", "t", "i", "o", "n">>,
              {<<"p", "a", "y", "l", "o", "a", "d">>})}

EndpointClasses ==
    {"ConfigurationPolicyAppProbeClassList", "ConfigurationPolicyDataIPv6PrefixList",
     "ConfigurationPolicyRuleSetDefinition", "TenantMigration"}

\* the decorated methods of a class
Endpoints(cls) ==
    CASE cls = "ConfigurationPolicyAppProbeClassList" -> ConfigurationPolicyAppProbeClassList
      [] cls = "ConfigurationPolicyDataIPv6PrefixList" -> ConfigurationPolicyDataIPv6PrefixList
      [] cls = "ConfigurationPolicyRuleSetDefinition" -> ConfigurationPolicyRuleSetDefinition
      [] cls = "TenantMigration" -> TenantMigration

\* the names between braces of a path template
url_field_names(url) ==
    {SubSeq(url, i + 1, j - 1) : <<i, j>> \in
        {p \in (1..Len(url)) \X (1..Len(url)) :
            /\ p[1] < p[2]
            /\ url[p[1]] = "{"
            /\ url[p[2]] = "}"
            /\ \A k \in (p[1] + 1)..(p[2] - 1) : url[k] \notin {"{", "}"}}}

\* what a decorator records of the method cls.func
request(cls, func) ==
    LET e == CHOOSE e \in Endpoints(cls) : e.func = func
    IN  Return([http_method |-> e.http_method,
                url |-> e.url,
                url_field_names |-> url_field_names(e.url),
                parameters |-> e.parameters])

(***************************************************************************)
(* Enumerated inputs                                                       *)
(***************************************************************************)
Alphabet == {"0", "1", "7", "-", "+", " ", "_", "x"}

Strings(n) == UNION {[1..k -> Alphabet] : k \in 0..n}

\* the decimal string of a digit sequence
Dec(digits) == [i \in 1..Len(digits) |-> DigitChar[digits[i]]]

MetricStrings ==
    {Dec(<<0>>), Dec(<<1>>), Dec(<<1, 0, 0>>), Dec(<<1, 0, 1>>),
     Dec(<<1, 0, 0, 0>>), Dec(<<1, 0, 0, 1>>), Dec(<<0, 0, 7>>),
     <<"-", "1">>, <<"+", "1", "0", "0", "0">>, <<"1", "_", "0", "0", "0">>}

CheckInputs == Strings(MaxLen) \cup MetricStrings


\* criteria strings: up to MaxTokens tokens joined by hyphens
CriteriaTokens == {JITTER, LATENCY, LOSS, <<"x">>, <<>>}

RECURSIVE join(_, _)
join(parts, sep) ==
    IF Len(parts) = 1 THEN Head(parts)
    ELSE Head(parts) \o <<sep>> \o join(Tail(parts), sep)

CriteriaInputs ==
    {join(ts, "-") : ts \in UNION {[1..k -> CriteriaTokens] : k \in 1..MaxTokens}}

\* "0" is in range for loss only, "100" for all three, "1001" for none
VarianceInputs ==
    {Absent, None, Str(Dec(<<0>>)), Str(Dec(<<1, 0, 0>>)), Str(Dec(<<1, 0, 0, 1>>))}

FallbackBestTunnelInputs ==
    [criteria : {Str(c) : c \in CriteriaInputs},
     jitter_variance : VarianceInputs,
     latency_variance : VarianceInputs,
     loss_variance : VarianceInputs]

VpnStrings ==
    {Dec(<<6, 5, 5, 3, 0>>), Dec(<<6, 5, 5, 3, 1>>),
     Dec(<<0>>) \o <<"-">> \o Dec(<<6, 5, 5, 3, 0>>),
     Dec(<<0>>) \o <<"-">> \o Dec(<<6, 5, 5, 3, 1>>),
     Dec(<<6, 5, 5, 3, 0>>) \o <<"-">> \o Dec(<<6, 5, 5, 3, 0>>),
     Dec(<<6, 5, 5, 2, 9>>) \o <<"-">> \o Dec(<<6, 5, 5, 3, 0>>),
     <<"1", "-", "5">>, <<"5", "-", "5">>, <<"5", "-", "1">>,
     <<"1", "-", "2", "-", "3">>, <<"1", "-", "-", "5">>,
     <<" ", "1", " ", "-", " ", "7", " ">>, <<"0", "1", "-", "1", "_", "0">>}

VPNListEntryInputs ==
    [vpn : {Absent, None} \cup {Str(s) : s \in Strings(MaxLen) \cup VpnStrings}]

InterfaceInputs ==
    {Absent, None, Str(<<"E", "t", "h", "e", "r", "n", "e", "t">>), Str(<<"x">>)}

ZoneListEntryInputs ==
    [vpn : {Absent, None} \cup {Str(s) : s \in Strings(MaxLen) \cup VpnStrings},
     interface : InterfaceInputs]

\* country, continent, app and app_family are free-form strings
NameInputs == {Absent, None, Str(<<"x">>), Str(<<"F", "R", "A">>)}

GeoLocationListEntryInputs == [country : NameInputs, continent : NameInputs]

AppListEntryInputs == [app_family : NameInputs, app : NameInputs]


BurstInputs ==
    {Absent, None, Str(<<"x">>),
     Str(Dec(<<1, 4, 9, 9, 9>>)), Str(Dec(<<1, 5, 0, 0, 0>>)),
     Str(Dec(<<1, 0, 0, 0, 0, 0, 0, 0>>)), Str(Dec(<<1, 0, 0, 0, 0, 0, 0, 1>>))}

RateInputs ==
    {Absent, None, Str(<<"x">>), Str(<<"-", "8">>),
     Str(Dec(<<7>>)), Str(Dec(<<8>>)),
     Str(Dec(<<1, 0, 0, 0, 0, 0, 0, 0>>)), Str(Dec(<<1, 0, 0, 0, 0, 0, 0, 1>>)),
     Str(Dec(<<1, 0, 0, 0, 0, 0, 0, 0, 0, 0, 0, 0>>)),
     Str(Dec(<<1, 0, 0, 0, 0, 0, 0, 0, 0, 0, 0, 1>>)),
     Str(Dec(<<0, 1, 0, 0, 0, 0, 0, 0, 0, 0, 0, 0, 0>>))}

ExceedInputs ==
    {Absent, None, Str(<<"x">>), Str(<<"d", "r", "o", "p">>),
     Str(<<"r", "e", "m", "a", "r", "k">>), Str(<<"D", "R", "O", "P">>)}

PolicerListEntryInputs == [burst : BurstInputs, exceed : ExceedInputs, rate : RateInputs]

\* a valid FallbackBestTunnel, one with criteria that do not match, one out
\* of range, one with no variance and one with a variance passed as None
FallbackInputs ==
    {Absent, None} \cup
    {Obj([criteria |-> Str(c), jitter_variance |-> j,
          latency_variance |-> Absent, loss_variance |-> l]) :
        c \in {LOSS, JITTER}, j \in {Absent, None},
        l \in {Absent, Str(Dec(<<1, 0, 0>>)), Str(Dec(<<1, 0, 0, 1>>))}}

SLAClassListEntryInputs ==
    [latency : VarianceInputs, loss : VarianceInputs, jitter : VarianceInputs,
     app_probe_class : {Absent, None, Str(<<"x">>)},
     fallback_best_tunnel : FallbackInputs]

PreferenceInputs ==
    {Absent, None} \cup
    {Obj([color_preference |-> Str(<<"x">>), path_preference |-> p]) :
        p \in {Absent, Str(<<"x">>), Str(<<"a", "l", "l", "-", "p", "a", "t", "h", "s">>),
               Str(<<"d", "i", "r", "e", "c", "t", "-", "p", "a", "t", "h">>)}}

PreferredColorGroupListEntryInputs ==
    [primary_preference : PreferenceInputs,
     secondary_preference : PreferenceInputs,
     tertiary_preference : PreferenceInputs]

\* controller versions around 20.13
Versions == {<<major, minor, patch>> : major \in 19..21, minor \in 0..MaxMinor, patch \in 0..1}

STRINGBOOLInputs == {None, Str(<<"t", "r", "u", "e">>), Str(<<"f", "a", "l", "s", "e">>)}

\* models populated field by field, each field with a value of its type
CiscoVpnInterfaceModels ==
    [if_name : {Str(<<"x">>)},
     secondary_ipv4_address : {None, List("SecondaryIPv4Address")},
     dhcp_ipv4_client : STRINGBOOLInputs,
     dhcp_distance : {None, PyInt(1)},
     dhcp_ipv6_client : STRINGBOOLInputs,
     secondary_ipv6_address : {None, List("SecondaryIPv6Address")},
     access_list_ipv4 : {None, List("AccessList in")},
     enable : {None, Str(<<"t", "r", "u", "e">>)},
     access_list_ipv6 : {None, List("AccessList out")},
     enable_sgt_propagation : {None, Str(<<"t", "r", "u", "e">>)},
     sgt : {None, PyInt(7)},
     enable_sgt_authorization_and_forwarding : {None, Str(<<"f", "a", "l", "s", "e">>)},
     enable_sgt_enforcement : STRINGBOOLInputs,
     enforcement_sgt : {None, PyInt(7)}]

\* every decorated method of every endpoint class
DecoratedMethods ==
    {[cls |-> cls, func |-> e.func] : <<cls, e>> \in
        {p \in EndpointClasses \X UNION {Endpoints(c) : c \in EndpointClasses} :
            p[2] \in Endpoints(p[1])}}

(***************************************************************************)
(* One run of the library is one operation applied to one input: Init      *)
(* draws the operation and its input, the operation's action applies it.   *)
(***************************************************************************)
Pending == [st |-> "pending", v |-> None]

Init ==
    /\ ret = Pending
    /\ \/ /\ call \in {"check_jitter_ms", "check_latency_ms", "check_loss_percent"}
          /\ arg \in {Str(s) : s \in CheckInputs}
       \/ /\ call = "FallbackBestTunnel"
          /\ arg \in FallbackBestTunnelInputs
       \/ /\ call = "VPNListEntry"
          /\ arg \in VPNListEntryInputs
       \/ /\ call = "ZoneListEntry"
          /\ arg \in ZoneListEntryInputs
       \/ /\ call = "GeoLocationListEntry"
          /\ arg \in GeoLocationListEntryInputs
       \/ /\ call \in {"LocalAppListEntry", "AppListEntry"}
          /\ arg \in AppListEntryInputs
       \/ /\ call = "PolicerListEntry"
          /\ arg \in PolicerListEntryInputs
       \/ /\ call = "SLAClassListEntry"
          /\ arg \in SLAClassListEntryInputs
       \/ /\ call = "PreferredColorGroupListEntry"
          /\ arg \in PreferredColorGroupListEntryInputs
       \/ /\ call \in {"import_tenant_data", "import_tenant_data_with_key"}
          /\ arg \in Versions
       \/ /\ call = "request"
          /\ arg \in DecoratedMethods
       \/ /\ call = "CiscoVpnInterfaceModel"
          /\ arg \in CiscoVpnInterfaceModels

CallCheckJitter ==
    /\ call = "check_jitter_ms"
    /\ ret.st = "pending"
    /\ ret' = check_jitter_ms(arg)
    /\ UNCHANGED <<call, arg>>

CallCheckLatency ==
    /\ call = "check_latency_ms"
    /\ ret.st = "pending"
    /\ ret' = check_latency_ms(arg)
    /\ UNCHANGED <<call, arg>>

CallCheckLoss ==
    /\ call = "check_loss_percent"
    /\ ret.st = "pending"
    /\ ret' = check_loss_percent(arg)
    /\ UNCHANGED <<call, arg>>

NewFallbackBestTunnel ==
    /\ call = "FallbackBestTunnel"
    /\ ret.st = "pending"
    /\ ret' = FallbackBestTunnel(arg)
    /\ UNCHANGED <<call, arg>>

NewVPNListEntry ==
    /\ call = "VPNListEntry"
    /\ ret.st = "pending"
    /\ ret' = VPNListEntry(arg)
    /\ UNCHANGED <<call, arg>>

NewZoneListEntry ==
    /\ call = "ZoneListEntry"
    /\ ret.st = "pending"
    /\ ret' = ZoneListEntry(arg)
    /\ UNCHANGED <<call, arg>>

NewGeoLocationListEntry ==
    /\ call = "GeoLocationListEntry"
    /\ ret.st = "pending"
    /\ ret' = GeoLocationListEntry(arg)
    /\ UNCHANGED <<call, arg>>

NewLocalAppListEntry ==
    /\ call = "LocalAppListEntry"
    /\ ret.st = "pending"
    /\ ret' = LocalAppListEntry(arg)
    /\ UNCHANGED <<call, arg>>

NewAppListEntry ==
    /\ call = "AppListEntry"
    /\ ret.st = "pending"
    /\ ret' = AppListEntry(arg)
    /\ UNCHANGED <<call, arg>>

NewPolicerListEntry ==
    /\ call = "PolicerListEntry"
    /\ ret.st = "pending"
    /\ ret' = PolicerListEntry(arg)
    /\ UNCHANGED <<call, arg>>

NewSLAClassListEntry ==
    /\ call = "SLAClassListEntry"
    /\ ret.st = "pending"
    /\ ret' = SLAClassListEntry(arg)
    /\ UNCHANGED <<call, arg>>

NewPreferredColorGroupListEntry ==
    /\ call = "PreferredColorGroupListEntry"
    /\ ret.st = "pending"
    /\ ret' = PreferredColorGroupListEntry(arg)
    /\ UNCHANGED <<call, arg>>

ImportTenantData ==
    /\ call = "import_tenant_data"
    /\ ret.st = "pending"
    /\ ret' = import_tenant_data(arg)
    /\ UNCHANGED <<call, arg>>

ImportTenantDataWithKey ==
    /\ call = "import_tenant_data_with_key"
    /\ ret.st = "pending"
    /\ ret' = import_tenant_data_with_key(arg)
    /\ UNCHANGED <<call, arg>>

RoundTripCiscoVpnInterfaceModel ==
    /\ call = "CiscoVpnInterfaceModel"
    /\ ret.st = "pending"
    /\ ret' = CiscoVpnInterfaceRoundTrip(arg)
    /\ UNCHANGED <<call, arg>>

DecorateMethod ==
    /\ call = "request"
    /\ ret.st = "pending"
    /\ ret' = request(arg.cls, arg.func)
    /\ UNCHANGED <<call, arg>>

Next ==
    \/ CallCheckJitter
    \/ CallCheckLatency
    \/ CallCheckLoss
    \/ NewFallbackBestTunnel
    \/ NewVPNListEntry
    \/ NewZoneListEntry
    \/ NewGeoLocationListEntry
    \/ NewLocalAppListEntry
    \/ NewAppListEntry
    \/ NewPolicerListEntry
    \/ NewSLAClassListEntry
    \/ NewPreferredColorGroupListEntry
    \/ ImportTenantData
    \/ ImportTenantDataWithKey
    \/ RoundTripCiscoVpnInterfaceModel
    \/ DecorateMethod

Spec == Init /\ [][Next]_vars

(***************************************************************************)
(* Properties                                                              *)
(***************************************************************************)
Done == ret.st # "pending"

Accepted == ret.st = "ok"

\* s is a string that int() reads as a value with lo <= value <= hi
ValueIn(v, lo, hi) ==
    IsStr(v) /\ int(v.s).ok /\ InRange(int(v.s).val, lo, hi)

Supplied(v) == ~IsAbsent(v)

\* the names of the variances of a FallbackBestTunnel input that satisfy P
VarianceNames(inp, P(_)) ==
    {n \in {JITTER, LATENCY, LOSS} :
        \/ n = JITTER /\ P(inp.jitter_variance)
        \/ n = LATENCY /\ P(inp.latency_variance)
        \/ n = LOSS /\ P(inp.loss_variance)}

\* (1), (2) and (3) of the criteria rule for the variances named
CriteriaRule(inp, names) ==
    /\ names # {}
    /\ JITTER \in names =>
         ValueIn(inp.jitter_variance, Lit(<<1>>), Lit(<<1, 0, 0, 0>>))
    /\ LATENCY \in names =>
         ValueIn(inp.latency_variance, Lit(<<1>>), Lit(<<1, 0, 0, 0>>))
    /\ LOSS \in names =>
         ValueIn(inp.loss_variance, Lit(<<0>>), Lit(<<1, 0, 0>>))
    /\ Range(split(inp.criteria.s, "-")) = names

\* C1: a FallbackBestTunnel record is accepted if and only if (1) at least
\* one variance is set, (2) every variance that is set passes its range check
\* (jitter 1-1000, latency 1-1000, loss 0-100) and (3) the set of tokens of
\* criteria split on '-' equals the set of names of the variances that are
\* set (set: given a value other than None).
C1_FallbackBestTunnelAcceptedIff ==
    (call = "FallbackBestTunnel" /\ Done) =>
        (Accepted <=> CriteriaRule(arg, VarianceNames(arg, IsStr)))

\* The rule of C1 does describe the constructor once "set" is read as
\* "passed": a variance passed as None reaches its range check, where
\* int(None) raises TypeError, and the record is not accepted.
FallbackBestTunnelAcceptedIffPassed ==
    (call = "FallbackBestTunnel" /\ Done) =>
        (Accepted <=> CriteriaRule(arg, VarianceNames(arg, Supplied)))

\* C1's failing input: loss_variance within range, criteria "loss", and
\* jitter_variance passed as None
C1_FailingInput ==
    /\ call = "FallbackBestTunnel"
    /\ arg = [criteria |-> Str(LOSS), jitter_variance |-> None,
              latency_variance |-> Absent, loss_variance |-> Str(Dec(<<1, 0, 0>>))]
    /\ ret.st = "TypeError"

\* C2: VPNListEntry accepts a vpn string exactly when it is a single integer
\* in 0..65530, or two integers separated by one hyphen, each in 0..65530 and
\* the first strictly less than the second; three or more hyphen-separated
\* parts, a part out of range, a non-integer part and a range whose second
\* value is not greater than the first are rejected.
C2_VPNListEntryAcceptedIff ==
    (call = "VPNListEntry" /\ Done /\ IsStr(arg.vpn)) =>
        LET parts == split(arg.vpn.s, "-")
            InVpnRange(i) == ValueIn(Str(parts[i]), Lit(<<0>>), Lit(<<6, 5, 5, 3, 0>>))
        IN  Accepted <=>
                \/ Len(parts) = 1 /\ InVpnRange(1)
                \/ /\ Len(parts) = 2
                   /\ InVpnRange(1)
                   /\ InVpnRange(2)
                   /\ IntLess(int(parts[1]).val, int(parts[2]).val)

\* C2 witness: the range "65529-65530" is accepted
C2_Witness ==
    /\ call = "VPNListEntry"
    /\ arg.vpn = Str(Dec(<<6, 5, 5, 2, 9>>) \o <<"-">> \o Dec(<<6, 5, 5, 3, 0>>))
    /\ Accepted
    /\ ret.v.vpn = arg.vpn

\* C3: ZoneListEntry is accepted only when exactly one of vpn and interface
\* is set (both set and neither set are rejected), and when vpn is the one
\* set it is a single integer in 0..65530: a hyphenated range is rejected.
C3_ZoneListEntryAcceptedOnlyIf ==
    (call = "ZoneListEntry" /\ Done) =>
        /\ Accepted => (IsStr(arg.vpn) # IsStr(arg.interface))
        /\ (Accepted /\ IsStr(arg.vpn)) =>
              /\ ValueIn(arg.vpn, Lit(<<0>>), Lit(<<6, 5, 5, 3, 0>>))
              /\ LET parts == split(arg.vpn.s, "-")
                 IN  ~(Len(parts) > 1 /\ \A i \in 1..Len(parts) : int(parts[i]).ok)

\* C3 witness: vpn "65530" alone is accepted; the range "1-5" alone is not
C3_Witness ==
    /\ call = "ZoneListEntry"
    /\ arg.vpn = Str(Dec(<<6, 5, 5, 3, 0>>))
    /\ IsAbsent(arg.interface)
    /\ Accepted
    /\ ZoneListEntry([vpn |-> Str(<<"1", "-", "5">>), interface |-> Absent]).st
           = "ValidationError"

ExclusiveEntries == {"GeoLocationListEntry", "LocalAppListEntry", "AppListEntry"}

\* the two fields of an entry of ExclusiveEntries
FirstField(inp) ==
    IF call = "GeoLocationListEntry" THEN inp.country ELSE inp.app

SecondField(inp) ==
    IF call = "GeoLocationListEntry" THEN inp.continent ELSE inp.app_family

\* C4: a GeoLocationListEntry (country, continent), AppListEntry or
\* LocalAppListEntry (app, app_family) record is accepted if and only if
\* exactly one of its two fields is set (not None).
C4_ExactlyOneFieldSetIff ==
    (call \in ExclusiveEntries /\ Done) =>
        (Accepted <=> (IsStr(FirstField(arg)) # IsStr(SecondField(arg))))

\* The rule of C4 holds of the records that pass both fields, the unset one
\* as None: neither field has a default, so a record that leaves one out is
\* refused before the fields are compared.
ExactlyOneFieldSetIffBothPassed ==
    (call \in ExclusiveEntries /\ Done
        /\ Supplied(FirstField(arg)) /\ Supplied(SecondField(arg))) =>
        (Accepted <=> (IsStr(FirstField(arg)) # IsStr(SecondField(arg))))

\* C4's failing input: country given, continent left out
C4_FailingInput ==
    /\ call = "GeoLocationListEntry"
    /\ arg = [country |-> Str(<<"F", "R", "A">>), continent |-> Absent]
    /\ ret.st = "ValidationError"

CheckFunctions == {"check_jitter_ms", "check_latency_ms", "check_loss_percent"}

ApplyCheck(f, v) ==
    CASE f = "check_jitter_ms" -> check_jitter_ms(v)
      [] f = "check_latency_ms" -> check_latency_ms(v)
      [] f = "check_loss_percent" -> check_loss_percent(v)

\* C6: check_jitter_ms and check_latency_ms accept exactly the strings whose
\* integer value is in 1..1000, check_loss_percent exactly those in 0..100;
\* an accepted string is returned unchanged, so the check applied to its own
\* result gives the same result; a rejected string raises ValueError.
C6_ChecksAcceptRangeReturnInput ==
    (call \in CheckFunctions /\ Done) =>
        LET lo == IF call = "check_loss_percent" THEN Lit(<<0>>) ELSE Lit(<<1>>)
            hi == IF call = "check_loss_percent"
                  THEN Lit(<<1, 0, 0>>) ELSE Lit(<<1, 0, 0, 0>>)
        IN  /\ Accepted <=> ValueIn(arg, lo, hi)
            /\ Accepted => ret.v = arg /\ ApplyCheck(call, ret.v) = ret
            /\ ~Accepted => ret.st = "ValueError"

\* C6 witness: "+1000" is accepted by check_jitter_ms and comes back as it is
C6_Witness ==
    /\ call = "check_jitter_ms"
    /\ arg = Str(<<"+", "1", "0", "0", "0">>)
    /\ Accepted
    /\ ret.v = arg

DROP == <<"d", "r", "o", "p">>

REMARK == <<"r", "e", "m", "a", "r", "k">>

\* C7: PolicerListEntry accepts burst exactly when its integer value is in
\* 15000..10000000 and rate exactly when its integer value is in
\* 8..100000000000, as the field descriptions state; exceed is "drop" when
\* it is not given and may only be "drop" or "remark".
C7_PolicerListEntryRanges ==
    (call = "PolicerListEntry" /\ Done) =>
        /\ Accepted <=>
              /\ ValueIn(arg.burst, Lit(<<1, 5, 0, 0, 0>>), Lit(<<1, 0, 0, 0, 0, 0, 0, 0>>))
              /\ ValueIn(arg.rate, Lit(<<8>>), Lit(<<1, 0, 0, 0, 0, 0, 0, 0, 0, 0, 0, 0>>))
              /\ IsAbsent(arg.exceed) \/ arg.exceed \in {Str(DROP), Str(REMARK)}
        /\ Accepted =>
              /\ ret.v.exceed = IF IsAbsent(arg.exceed) THEN Str(DROP) ELSE arg.exceed
              /\ ret.v.exceed \in {Str(DROP), Str(REMARK)}

\* C7 witness: the smallest burst and the largest rate, exceed not given
C7_Witness ==
    /\ call = "PolicerListEntry"
    /\ arg.burst = Str(Dec(<<1, 5, 0, 0, 0>>))
    /\ arg.rate = Str(Dec(<<1, 0, 0, 0, 0, 0, 0, 0, 0, 0, 0, 0>>))
    /\ IsAbsent(arg.exceed)
    /\ Accepted
    /\ ret.v.exceed = Str(DROP)

\* a PolicerListEntry input whose burst and exceed are acceptable
OnlyRateDecides ==
    /\ ValueIn(arg.burst, Lit(<<1, 5, 0, 0, 0>>), Lit(<<1, 0, 0, 0, 0, 0, 0, 0>>))
    /\ IsAbsent(arg.exceed) \/ arg.exceed \in {Str(DROP), Str(REMARK)}

PreferenceSet(v) == IsObj(v) /\ ColorGroupPreference(v.s).st = "ok"

\* a preference that is not given, or given as None
PreferenceUnset(v) == IsAbsent(v) \/ IsNone(v)

\* C9: PreferredColorGroupListEntry keeps its optional preferences in order:
\* tertiary set with secondary unset is rejected, every other combination of
\* set and unset secondary and tertiary (the primary present) is accepted;
\* so in every accepted record tertiary set implies secondary set.
C9_PreferencesInOrder ==
    (call = "PreferredColorGroupListEntry" /\ Done) =>
        /\ ( /\ PreferenceSet(arg.primary_preference)
             /\ PreferenceSet(arg.secondary_preference)
                  \/ PreferenceUnset(arg.secondary_preference)
             /\ PreferenceSet(arg.tertiary_preference)
                  \/ PreferenceUnset(arg.tertiary_preference) ) =>
              (Accepted <=> ~( /\ PreferenceSet(arg.tertiary_preference)
                               /\ PreferenceUnset(arg.secondary_preference) ))
        /\ Accepted =>
              /\ IsObj(arg.tertiary_preference) => IsObj(arg.secondary_preference)
              /\ NotNone(ret.v.tertiary_preference) => NotNone(ret.v.secondary_preference)

\* C9 witness: secondary set and tertiary unset is accepted, and the same
\* preference as tertiary without a secondary is not
C9_Witness ==
    /\ call = "PreferredColorGroupListEntry"
    /\ PreferenceSet(arg.primary_preference)
    /\ PreferenceSet(arg.secondary_preference)
    /\ IsAbsent(arg.tertiary_preference)
    /\ Accepted
    /\ PreferredColorGroupListEntry(
           [primary_preference |-> arg.primary_preference,
            secondary_preference |-> Absent,
            tertiary_preference |-> arg.secondary_preference]).st = "ValidationError"

ImportEndpoints == {"import_tenant_data", "import_tenant_data_with_key"}

\* C10: for every controller version exactly one of the two tenant-import
\* endpoints is applicable: import_tenant_data (POST /tenantmigration/import)
\* below 20.13 and import_tenant_data_with_key
\* (POST /tenantmigration/import/{migration_key}) from 20.13 on.
C10_ExactlyOneImportEndpoint ==
    (call \in ImportEndpoints /\ Done) =>
        LET below == VersionLess(arg, <<20, 13, 0>>)
            plain == import_tenant_data(arg).v
            keyed == import_tenant_data_with_key(arg).v
        IN  /\ plain.supported # keyed.supported
            /\ plain.supported <=> below
            /\ keyed.supported <=> ~below
            /\ ret.v.method = "POST"
            /\ call = "import_tenant_data" =>
                  ret.v.path = "/tenantmigration/import" /\ (ret.v.supported <=> below)
            /\ call = "import_tenant_data_with_key" =>
                  /\ ret.v.path = "/tenantmigration/import/{migration_key}"
                  /\ ret.v.supported <=> ~below

\* C10 witness: at 20.13 itself the endpoint with the key is the one supported
C10_Witness ==
    /\ call = "import_tenant_data_with_key"
    /\ arg = <<20, 13, 0>>
    /\ Done
    /\ ret.v.supported
    /\ ~import_tenant_data(arg).v.supported

\* C11: field aliasing of CiscoVpnInterfaceModel round-trips: distinct
\* fields have distinct wire names, so a model whose fields are populated
\* independently by name, written out by wire name and read back by wire
\* name yields the same value for every field.
C11_AliasRoundTrip ==
    /\ \A f, g \in Range(CiscoVpnInterfaceFields) :
          f # g => CiscoVpnInterfaceAlias[f] # CiscoVpnInterfaceAlias[g]
    /\ (call = "CiscoVpnInterfaceModel" /\ Done) =>
          /\ Accepted
          /\ \A f \in Range(CiscoVpnInterfaceFields) : ret.v[f] = arg[f]

\* the round trip alone, without the statement about the wire names
CiscoVpnInterfaceRoundTripIsIdentity ==
    (call = "CiscoVpnInterfaceModel" /\ Done) =>
        /\ Accepted
        /\ \A f \in Range(CiscoVpnInterfaceFields) : ret.v[f] = arg[f]

\* What the round trip does keep: a field whose wire name no other field
\* shares comes back as it was whenever the model is read back at all, and
\* the fields that share a wire name all come back with the value of the
\* last of them in the class body.
CiscoVpnInterfaceRoundTripKeepsUnsharedNames ==
    (call = "CiscoVpnInterfaceModel" /\ Accepted) =>
        \A f \in Range(CiscoVpnInterfaceFields) :
            /\ (\A g \in Range(CiscoVpnInterfaceFields) :
                    g # f => CiscoVpnInterfaceAlias[g] # CiscoVpnInterfaceAlias[f])
                  => ret.v[f] = arg[f]
            /\ \A g \in Range(CiscoVpnInterfaceFields) :
                    CiscoVpnInterfaceAlias[g] = CiscoVpnInterfaceAlias[f]
                        => ret.v[g] = ret.v[f]

\* C11's failing input: dhcp_ipv4_client "true" and dhcp_ipv6_client "false"
\* both come back "false"
C11_FailingInput ==
    /\ call = "CiscoVpnInterfaceModel"
    /\ arg.dhcp_ipv4_client = Str(<<"t", "r", "u", "e">>)
    /\ arg.dhcp_ipv6_client = Str(<<"f", "a", "l", "s", "e">>)
    /\ Accepted
    /\ ret.v.dhcp_ipv4_client = Str(<<"f", "a", "l", "s", "e">>)
    /\ ret.v.dhcp_ipv6_client = Str(<<"f", "a", "l", "s", "e">>)

\* the resource prefix of each policy endpoint class
ResourcePrefix(cls) ==
    CASE cls = "ConfigurationPolicyAppProbeClassList" -> <<"/", "t", "e", "m", "p", "l", "a", "t", "e", "/", "p", "o", "l", "i", "c", "y", "/", "l", "i", "s", "t", "/", "a", "p", "p", "p", "r", "o", "b", "e">>
      [] cls = "ConfigurationPolicyDataIPv6PrefixList" -> <<"/", "t", "e", "m", "p", "l", "a", "t", "e", "/", "p", "o", "l", "i", "c", "y", "/", "l", "i", "s", "t", "/", "d", "a", "t", "a", "i", "p", "v", "6", "p", "r", "e", "f", "i", "x">>
      [] cls = "ConfigurationPolicyRuleSetDefinition" -> <<"/", "t", "e", "m", "p", "l", "a", "t", "e", "/", "p", "o", "l", "i", "c", "y", "/", "d", "e", "f", "i", "n", "i", "t", "i", "o", "n", "/", "r", "u", "l", "e", "s", "e", "t">>

\* url is the prefix itself or continues it with a further segment
LiesUnder(url, prefix) ==
    /\ Len(url) >= Len(prefix)
    /\ SubSeq(url, 1, Len(prefix)) = prefix
    /\ Len(url) > Len(prefix) => url[Len(prefix) + 1] = "/"

\* C12: within each endpoint class no two decorated methods declare the
\* same pair of HTTP verb and path template, every path of a policy class
\* lies under that class's own resource prefix, and every placeholder of a
\* path template is a parameter of the decorated method.
C12_EndpointTablesWellFormed ==
    (call = "request" /\ Done) =>
        /\ Accepted
        /\ \A e \in Endpoints(arg.cls) :
              e.func # arg.func =>
                  ~(e.http_method = ret.v.http_method /\ e.url = ret.v.url)
        /\ arg.cls # "TenantMigration" =>
              LiesUnder(ret.v.url, ResourcePrefix(arg.cls))
        /\ ret.v.url_field_names \subseteq ret.v.parameters

\* a delete by id has been declared: its path has the placeholder id, which
\* is a parameter, and another method of the class has the same path under
\* another verb
C12_Witness ==
    /\ call = "request"
    /\ arg.cls = "ConfigurationPolicyRuleSetDefinition"
    /\ arg.func = "delete_policy_definition"
    /\ Accepted
    /\ ret.v.url_field_names = {<<"i", "d">>}
    /\ <<"i", "d">> \in ret.v.parameters
    /\ \E e \in Endpoints(arg.cls) :
          e.func # arg.func /\ e.url = ret.v.url /\ e.http_method # ret.v.http_method

\* the criteria strings of up to MaxTokens tokens that have the same set of
\* tokens as criteria: its permutations and its repetitions of a token
SameTokenSet(criteria) ==
    LET tokens == Range(split(criteria, "-"))
    IN  {join(ts, "-") : ts \in
            {q \in UNION {[1..k -> tokens] : k \in 1..MaxTokens} : Range(q) = tokens}}

\* C13: the criteria check of FallbackBestTunnel depends only on the set of
\* hyphen-separated tokens: with the variances fixed, permuting the tokens
\* of criteria or repeating a token never changes whether the record is
\* accepted.
C13_CriteriaTokenSetDecides ==
    (call = "FallbackBestTunnel" /\ Done) =>
        \A c \in SameTokenSet(arg.criteria.s) :
            (FallbackBestTunnel([arg EXCEPT !.criteria = Str(c)]).st = "ok") <=> Accepted

\* "loss-jitter" has been accepted, and with the same variances so are
\* "jitter-loss" and "jitter-jitter-loss"
C13_Witness ==
    /\ call = "FallbackBestTunnel"
    /\ arg.criteria = Str(join(<<LOSS, JITTER>>, "-"))
    /\ Accepted
    /\ join(<<JITTER, LOSS>>, "-") \in SameTokenSet(arg.criteria.s)
    /\ join(<<JITTER, JITTER, LOSS>>, "-") \in SameTokenSet(arg.criteria.s)
    /\ FallbackBestTunnel([arg EXCEPT !.criteria = Str(join(<<JITTER, JITTER, LOSS>>, "-"))]).st = "ok"

====
